---- MODULE Spec2Model ----
(***************************************************************************)
(* Leak detection: the leak correlator (findValue), the report generator   *)
(* (getSummary), the remote object unwrapper (unwrapHandle/unwrapHandleEx),*)
(* the shadow-piercing query handler (robustPierceQueryHandler) and the    *)
(* CDP read stream (createCDPReadStream).                                  *)
(*                                                                         *)
(* A JavaScript object is a record that holds only the properties that are *)
(* set: an optional property that is undefined is a field missing from the *)
(* record's DOMAIN.  Indices into JavaScript arrays are 0-based, as in the *)
(* source; sequences are 1-based, so element i of an array is seq[i + 1].  *)
(***************************************************************************)
EXTENDS Integers, Sequences, FiniteSets, TLC

VARIABLES
    requests,        \* findValue: the RequestData[] argument
    visitedTargets,  \* findValue: the visitedTargets argument (URLs)
    searches,        \* findValue: the array handed to Promise.all
    settled,         \* findValue: indices of searches, in completion order
    findState,       \* findValue: "idle" | "awaiting" | "fulfilled" | "rejected"
    findResult,      \* findValue: the FindEntry[] it resolved with
    output,          \* getSummary: the OutputFile argument
    summary,         \* getSummary: how the call ended and what it wrote
    handle,          \* unwrapHandle(Ex): the remote object behind the handle
    unwrapCall,      \* unwrapHandle(Ex): the variant called and its result
    dom,             \* query handler: the page's node tree
    query,           \* query handler: the call made and its result
    gen,             \* CDP read stream: the readStream() async generator
    cdp,             \* CDP read stream: the commands sent to the session
    stream           \* CDP read stream: the producer stream and its timeout

findVars == <<requests, visitedTargets, searches, settled, findState, findResult>>

summaryVars == <<output, summary>>
unwrapVars  == <<handle, unwrapCall>>
queryVars   == <<dom, query>>
streamVars  == <<gen, cdp, stream>>

vars == <<findVars, summaryVars, unwrapVars, queryVars, streamVars>>

notFindVars    == <<summaryVars, unwrapVars, queryVars, streamVars>>
notSummaryVars == <<findVars, unwrapVars, queryVars, streamVars>>
notUnwrapVars  == <<findVars, summaryVars, queryVars, streamVars>>
notQueryVars   == <<findVars, summaryVars, unwrapVars, streamVars>>
notStreamVars  == <<findVars, summaryVars, unwrapVars, queryVars>>

-----------------------------------------------------------------------------
(* Generic helpers                                                         *)

Has(obj, key) == key \in DOMAIN obj

Range(seq) == {seq[i] : i \in 1..Len(seq)}

SeqsUpTo(S, n) == UNION {[1..k -> S] : k \in 0..n}

RECURSIVE Flatten(_)
Flatten(seqs) ==
    IF seqs = <<>> THEN <<>> ELSE Head(seqs) \o Flatten(Tail(seqs))

-----------------------------------------------------------------------------
(* The components a specification does not exercise stay as constructed.   *)

FindIdle ==
    /\ requests = <<>>
    /\ visitedTargets = <<>>
    /\ searches = <<>>
    /\ settled = <<>>
    /\ findState = "idle"
    /\ findResult = <<>>

SummaryIdle ==
    /\ output = <<>>
    /\ summary = [status |-> "init"]

UnwrapIdle ==
    /\ handle = <<>>
    /\ unwrapCall = [status |-> "init"]

QueryIdle ==
    /\ dom = <<>>
    /\ query = [status |-> "init"]

StreamIdle ==
    /\ gen = [state |-> "suspendedStart"]
    /\ cdp = <<>>
    /\ stream = [state |-> "open"]

-----------------------------------------------------------------------------
(* findValue (analysis.ts)                                                 *)

MaxRequests == 2
MaxVisited  == 2
MaxSearches == 3

RequestUrls  == {"a", "b"}
VisitedUrls  == {"a", "c"}
HeaderNames  == <<"h1", "h2">>
PostBodies   == {"", "p"}
Encoders     == <<"uri">>

\* request.requestHeaders for a request with n headers, in enumeration order.
HeadersWith(n) == [i \in 1..n |-> [name |-> HeaderNames[i], value |-> "v"]]

RequestShapes ==
    LET hs == {HeadersWith(n) : n \in 0..Len(HeaderNames)} IN
       {[url |-> u] : u \in RequestUrls}
  \cup {[url |-> u, requestHeaders |-> h] : u \in RequestUrls, h \in hs}
  \cup {[url |-> u, requestHeaders |-> h, postData |-> p] :
            u \in RequestUrls, h \in hs, p \in PostBodies}

\* request.requestHeaders ?? {}, as Object.entries enumerates it
HeaderEntries(request) ==
    IF Has(request, "requestHeaders") THEN request.requestHeaders ELSE <<>>

\* A JavaScript string is falsy exactly when it is empty.
Truthy(request, key) == Has(request, key) /\ request[key] # ""

\* One element of the array handed to Promise.all: a pending findValueIn
\* promise for `buf` whose .then tags the result with `loc`, or the falsy
\* value that `request.postData && ...` leaves in the array.
Search(loc, buf) == [loc |-> loc, buf |-> buf, st |-> "pending"]
FalsyElement     == [st |-> "falsy"]

RequestSearches(request, requestIndex) ==
       <<Search([requestIndex |-> requestIndex, part |-> "url"], request.url)>>
    \o [h \in 1..Len(HeaderEntries(request)) |->
           Search([requestIndex |-> requestIndex, part |-> "header",
                   header |-> HeaderEntries(request)[h].name],
                  HeaderEntries(request)[h].value)]
    \o <<IF Truthy(request, "postData")
            THEN Search([requestIndex |-> requestIndex, part |-> "body"],
                        request.postData)
            ELSE FalsyElement>>

RequestUrlSet(reqs) == {reqs[i].url : i \in 1..Len(reqs)}

\* visitedTargets.map((url, i) => ({url, i})).filter(not a request URL)
VisitedSearchesByPosition(reqs, targets) ==
    LET indexed == [i \in 1..Len(targets) |->
                       [url |-> targets[i], visitedTargetIndex |-> i - 1]]
        kept    == SelectSeq(indexed, LAMBDA t : t.url \notin RequestUrlSet(reqs))
    IN [k \in 1..Len(kept) |->
           Search([visitedTargetIndex |-> kept[k].visitedTargetIndex,
                   part |-> "url"], kept[k].url)]

\* Mutant: the index is taken after the filter (filter before map).
VisitedSearchesAfterFilter(reqs, targets) ==
    LET kept == SelectSeq(targets, LAMBDA u : u \notin RequestUrlSet(reqs))
    IN [k \in 1..Len(kept) |->
           Search([visitedTargetIndex |-> k - 1, part |-> "url"], kept[k])]

VisitedSearches(reqs, targets) == VisitedSearchesByPosition(reqs, targets)

AllSearches(reqs, targets) ==
       Flatten([i \in 1..Len(reqs) |-> RequestSearches(reqs[i], i - 1)])
    \o VisitedSearches(reqs, targets)

\* encoders && {...loc, encodings: encoders.map(String)}
EntryOf(search) == [k \in DOMAIN search.loc \cup {"encodings"} |->
                       IF k = "encodings" THEN search.encodings ELSE search.loc[k]]

NotFalsy(search) == search.st = "found"

\* (await Promise.all([...])).filter(notFalsy): the array's own order
ResultInArrayOrder(all, order) ==
    LET kept == SelectSeq(all, NotFalsy)
    IN [k \in 1..Len(kept) |-> EntryOf(kept[k])]

\* Mutant: results collected as the searches complete.
ResultInCompletionOrder(all, order) ==
    LET kept == SelectSeq(order, LAMBDA i : NotFalsy(all[i]))
    IN [k \in 1..Len(kept) |-> EntryOf(all[kept[k]])]

FilteredResult(all, order) == ResultInArrayOrder(all, order)

NumSearches(reqs, targets) ==
    Cardinality({i \in 1..Len(AllSearches(reqs, targets)) :
                     AllSearches(reqs, targets)[i].st = "pending"})

FindInit ==
    /\ requests \in SeqsUpTo(RequestShapes, MaxRequests)
    /\ visitedTargets \in SeqsUpTo(VisitedUrls, MaxVisited)
    /\ NumSearches(requests, visitedTargets) <= MaxSearches
    /\ searches = <<>>
    /\ settled = <<>>
    /\ findState = "idle"
    /\ findResult = <<>>
    /\ SummaryIdle /\ UnwrapIdle /\ QueryIdle /\ StreamIdle

\* The synchronous part of findValue: every findValueIn call is made while
\* the array is built, then Promise.all is awaited.
FindValueCall ==
    /\ findState = "idle"
    /\ searches' = AllSearches(requests, visitedTargets)
    /\ findState' = "awaiting"
    /\ UNCHANGED <<requests, visitedTargets, settled, findResult, notFindVars>>

Pending(i) == findState = "awaiting" /\ searches[i].st = "pending"

\* findValueIn resolves with a list of encoders.
SearchFound(i) ==
    /\ Pending(i)
    /\ searches' = [searches EXCEPT ![i] =
                       [loc |-> @.loc, buf |-> @.buf, st |-> "found",
                        encodings |-> Encoders]]
    /\ settled' = Append(settled, i)
    /\ UNCHANGED <<requests, visitedTargets, findState, findResult, notFindVars>>

\* findValueIn resolves with a falsy value: nothing found.
SearchNone(i) ==
    /\ Pending(i)
    /\ searches' = [searches EXCEPT ![i].st = "none"]
    /\ settled' = Append(settled, i)
    /\ UNCHANGED <<requests, visitedTargets, findState, findResult, notFindVars>>

\* findValueIn rejects.  No .catch is attached: the promise derived by .then
\* rejects, Promise.all rejects with it, and the await in findValue throws.
SearchRejected(i) ==
    /\ Pending(i)
    /\ searches' = [searches EXCEPT ![i].st = "rejected"]
    /\ settled' = Append(settled, i)
    /\ findState' = "rejected"
    /\ UNCHANGED <<requests, visitedTargets, findResult, notFindVars>>

\* Every element is fulfilled: Promise.all fulfils, the result is filtered.
FindValueReturn ==
    /\ findState = "awaiting"
    /\ \A i \in 1..Len(searches) : searches[i].st \in {"found", "none", "falsy"}
    /\ findResult' = FilteredResult(searches, settled)
    /\ findState' = "fulfilled"
    /\ UNCHANGED <<requests, visitedTargets, searches, settled, notFindVars>>

FindNext ==
    \/ FindValueCall
    \/ \E i \in 1..Len(searches) : SearchFound(i)
    \/ \E i \in 1..Len(searches) : SearchNone(i)
    \/ \E i \in 1..Len(searches) : SearchRejected(i)
    \/ FindValueReturn

SpecFind == FindInit /\ [][FindNext]_vars

-----------------------------------------------------------------------------
(* Claims about findValue                                                  *)

\* The locations findValue has to search, counted from its arguments.
NumLocations ==
    LET perRequest(r) == 1 + Len(HeaderEntries(r))
                           + (IF Truthy(r, "postData") THEN 1 ELSE 0)
        RECURSIVE Sum(_)
        Sum(i) == IF i = 0 THEN 0 ELSE perRequest(requests[i]) + Sum(i - 1)
    IN Sum(Len(requests))
       + Cardinality({i \in 1..Len(visitedTargets) :
                         visitedTargets[i] \notin RequestUrlSet(requests)})

FoundEntries == {EntryOf(searches[i]) :
                    i \in {j \in 1..Len(searches) : searches[j].st = "found"}}

\* C1: a findValueIn call that rejects counts as "no finding" for its
\* location: findValue never rejects, and when every search has settled it
\* resolves with exactly the entries of the searches that found something.
C1_FailedSearchNeverFailsBatch ==
    /\ findState # "rejected"
    /\ findState = "fulfilled" => Range(findResult) = FoundEntries

\* The bytes at the location an entry names, read from findValue's arguments.
LocatedContent(e) ==
    IF Has(e, "requestIndex")
    THEN LET r == requests[e.requestIndex + 1] IN
         CASE e.part = "url"    -> {r.url}
           [] e.part = "header" -> {HeaderEntries(r)[h].value :
                                       h \in {g \in 1..Len(HeaderEntries(r)) :
                                                 HeaderEntries(r)[g].name = e.header}}
           [] e.part = "body"   -> IF Has(r, "postData") THEN {r.postData} ELSE {}
    ELSE {visitedTargets[e.visitedTargetIndex + 1]}

\* The search that produced an entry looked at the bytes the entry locates.
SearchedWhereTagged(e) ==
    \E i \in 1..Len(searches) :
        /\ searches[i].st = "found"
        /\ EntryOf(searches[i]) = e
        /\ searches[i].buf \in LocatedContent(e)

\* C3: every returned FindEntry has exactly one of requestIndex and
\* visitedTargetIndex; the index is the position, in the collection as passed
\* in, of the item that was searched; no visited-target entry is for a URL
\* that equals the URL of a request.
C3_EntryLocatesSearchedItem ==
    findState = "fulfilled" =>
        \A k \in 1..Len(findResult) :
            LET e == findResult[k] IN
            /\ Has(e, "requestIndex") # Has(e, "visitedTargetIndex")
            /\ Has(e, "requestIndex") => e.requestIndex \in 0..(Len(requests) - 1)
            /\ Has(e, "visitedTargetIndex") =>
                  /\ e.visitedTargetIndex \in 0..(Len(visitedTargets) - 1)
                  /\ visitedTargets[e.visitedTargetIndex + 1]
                         \notin RequestUrlSet(requests)
            /\ SearchedWhereTagged(e)

\* A visited target that follows one dropped for equalling a request URL was
\* found, next to a request entry.
C3_Witness ==
    /\ findState = "fulfilled"
    /\ \E k \in 1..Len(findResult) :
          /\ Has(findResult[k], "visitedTargetIndex")
          /\ findResult[k].visitedTargetIndex = 1
          /\ visitedTargets[1] \in RequestUrlSet(requests)
    /\ \E k \in 1..Len(findResult) : Has(findResult[k], "requestIndex")

\* The place of an entry in the structural order: requests by index, within
\* a request url, headers in enumeration order, body; then visited targets.
PartsPerRequest == Len(HeaderNames) + 2

StructuralRank(e) ==
    IF Has(e, "requestIndex")
    THEN e.requestIndex * PartsPerRequest
         + (CASE e.part = "url"    -> 0
              [] e.part = "header" ->
                    CHOOSE h \in 1..Len(HeaderNames) : HeaderNames[h] = e.header
              [] e.part = "body"   -> Len(HeaderNames) + 1)
    ELSE MaxRequests * PartsPerRequest + e.visitedTargetIndex

\* C4: all searches are started before any is awaited, and whatever the order
\* in which they complete, the entries come back in structural order.
C4_ResultInStructuralOrder ==
    /\ findState # "idle" =>
          Cardinality({i \in 1..Len(searches) : searches[i].st # "falsy"})
              = NumLocations
    /\ findState = "fulfilled" =>
          /\ Range(findResult) = FoundEntries
          /\ \A j, k \in 1..Len(findResult) :
                j < k => StructuralRank(findResult[j]) < StructuralRank(findResult[k])

\* Two searches found something and completed against the array's order.
C4_Witness ==
    /\ findState = "fulfilled"
    /\ Len(findResult) >= 2
    /\ \E j, k \in 1..Len(settled) :
          /\ j < k
          /\ settled[j] > settled[k]
          /\ searches[settled[j]].st = "found"
          /\ searches[settled[k]].st = "found"

-----------------------------------------------------------------------------
(* getSummary (analysis.ts)                                                *)
(* The report is kept as the array `strings` of the pieces written; the   *)
(* function returns their concatenation.  Emoji are left out of the text. *)
(* The duration line, the password-leak block (passwordLeaks is empty in  *)
(* every input drawn here) are not written.                                *)

MaxSummaryRequests == 2
MaxSummaryTargets  == 1
MaxLeaks           == 2
MaxCalls           == 2
MaxFrames          == 4

FillEmail    == "e@x"
FillPassword == "pw"
NUL          == "|"          \* stands for the character U+0000 of the key
RepeatMarker == "[down]"     \* stands for the arrow written for a repeated file
FieldValueRead == "HTMLInputElement.prototype.value"

Join(seq, sep) ==
    LET RECURSIVE J(_)
        J(i) == IF i > Len(seq) THEN ""
                ELSE IF i = Len(seq) THEN seq[i]
                ELSE seq[i] \o sep \o J(i + 1)
    IN J(1)

\* writeln(str): the string unless it is empty, then a line break
Ln(str) == IF str = "" THEN <<"\n">> ELSE <<str, "\n">>

\* time(timestamp): seconds since the crawl started, toFixed(1)
TimeStr(timestamp, testStarted) ==
    LET tenths == (timestamp - testStarted + 50) \div 100
    IN "T+" \o ToString(tenths \div 10) \o "." \o ToString(tenths % 10) \o "s"

ThirdPartyInfoStr(info) ==
       (IF Has(info, "thirdParty") /\ info.thirdParty THEN "third party " ELSE "")
    \o (IF Has(info, "tracker") /\ info.tracker THEN "tracker " ELSE "")

\* ---- leaked values -------------------------------------------------------

\* collectorData.requests![i] and collectorData.fields!.visitedTargets[i]
\* read a property of undefined when the collection is absent.
ResolveThrowsOnAbsent(leak, data) ==
    \/ Has(leak, "requestIndex") /\ ~Has(data, "requests")
    \/ Has(leak, "visitedTargetIndex") /\ ~Has(data, "fields")

\* Mutant: both collections are read before the indices are looked at.
ResolveThrowsEager(leak, data) ==
    ~Has(data, "requests") \/ ~Has(data, "fields")

ResolveThrows(leak, data) == ResolveThrowsOnAbsent(leak, data)

\* {...leak, request, visitedTarget}: an index past the end resolves to
\* undefined.
Annotate(leak, data) ==
       leak
    @@ (IF Has(leak, "requestIndex") /\ leak.requestIndex < Len(data.requests)
           THEN [request |-> data.requests[leak.requestIndex + 1]] ELSE <<>>)
    @@ (IF Has(leak, "visitedTargetIndex")
              /\ leak.visitedTargetIndex < Len(data.fields.visitedTargets)
           THEN [visitedTarget |->
                    data.fields.visitedTargets[leak.visitedTargetIndex + 1]]
           ELSE <<>>)

AnnotatedLeaks(out) ==
    [i \in 1..Len(out.leakedValues) |->
        Annotate(out.leakedValues[i], out.crawlResult.data)]

\* request ?? visitedTarget!
SourceOf(a) == IF Has(a, "request") THEN a.request ELSE a.visitedTarget

Unresolved(a) == ~Has(a, "request") /\ ~Has(a, "visitedTarget")

HasDomainInfo(annotated) ==
    Len(annotated) > 0 /\ Has(SourceOf(annotated[1]), "thirdParty")

\* thirdParty! || tracker!
Important(a) ==
    \/ Has(SourceOf(a), "thirdParty") /\ SourceOf(a).thirdParty
    \/ Has(SourceOf(a), "tracker") /\ SourceOf(a).tracker

ImportantLeaks(annotated) ==
    IF HasDomainInfo(annotated) THEN SelectSeq(annotated, Important) ELSE annotated

\* Every leak is read through request ?? visitedTarget! (by hasDomainInfo,
\* by the filter, or by the rendering loop): one that resolved to neither
\* makes the call throw a TypeError.
LeakSectionThrows(out) ==
    /\ Has(out, "leakedValues")
    /\ \/ \E i \in 1..Len(out.leakedValues) :
             ResolveThrows(out.leakedValues[i], out.crawlResult.data)
       \/ \E i \in 1..Len(out.leakedValues) :
             Unresolved(AnnotatedLeaks(out)[i])

RenderLeak(leak, testStarted) ==
    LET reqTime == IF Has(leak, "visitedTarget") THEN [t |-> leak.visitedTarget.time]
                   ELSE IF Has(leak.request, "wallTime")
                        THEN [t |-> leak.request.wallTime] ELSE <<>>
        head == (IF Has(reqTime, "t") THEN TimeStr(reqTime.t, testStarted) \o " " ELSE "")
                   \o leak.type \o " sent in " \o leak.part
    IN IF Has(leak, "request")
       THEN    <<head>>
            \o <<" of request to " \o ThirdPartyInfoStr(leak.request)
                    \o "\"" \o leak.request.url \o "\"">>
            \o (IF Has(leak.request, "stack") /\ Len(leak.request.stack) > 0
                   THEN Ln(" by:")
                        \o Flatten([f \in 1..Len(leak.request.stack) |->
                                       Ln("\t" \o leak.request.stack[f])])
                   ELSE <<>>)
            \o Ln("")
       ELSE    <<head>>
            \o Ln(" for navigation to " \o ThirdPartyInfoStr(leak.visitedTarget)
                     \o leak.visitedTarget.url)

LeakSection(out) ==
    LET data == out.crawlResult.data IN
       (IF Has(data, "requests") THEN <<>>
        ELSE Ln("No request collector data found"))
    \o (IF Has(out, "leakedValues")
        THEN LET important == ImportantLeaks(AnnotatedLeaks(out)) IN
             IF Len(important) > 0
             THEN    Ln("Values were sent in web requests"
                        \o (IF HasDomainInfo(AnnotatedLeaks(out))
                               THEN " to third parties" ELSE "") \o ":")
                  \o Flatten([i \in 1..Len(important) |-> RenderLeak(important[i], out.crawlResult.testStarted)])
                  \o Ln("")
             ELSE Ln("No leaks "
                        \o (IF Len(out.leakedValues) > 0 THEN "to third parties " ELSE "")
                        \o "detected\n")
        ELSE Ln("No leaked value data found\n"))

\* ---- field value reads ---------------------------------------------------

\* selectorStr (pageUtils): the selector chain rendered as one string.
SelectorStr(selectorChain) == Join(selectorChain, ">>>")

\* The part of a frame that stackFrameFileRegex (pageUtils) matches: a frame
\* is kept as the text before the match, the matched file and the text after
\* it; a frame the pattern does not match has no file.
FrameText(frame) ==
    IF Has(frame, "file") THEN frame.before \o frame.file \o frame.after
    ELSE frame.before

StackText(stack) == [i \in 1..Len(stack) |-> FrameText(stack[i])]

\* frame.replace(stackFrameFileRegex, file => replacement)
ReplaceFile(frame, replacement) ==
    IF Has(frame, "file") THEN frame.before \o replacement \o frame.after
    ELSE frame.before

GroupKey(call) ==
       (IF Has(call.custom, "selectorChain")
           THEN SelectorStr(call.custom.selectorChain) ELSE "")
    \o NUL \o call.custom.type
    \o NUL \o call.custom.value
    \o NUL \o Join(StackText(call.stack), "\n")

\* groupBy, then Object.entries: one entry per key, in the order in which
\* the keys first occur.
GroupBy(calls) ==
    LET RECURSIVE G(_, _)
        G(i, groups) ==
            IF i > Len(calls) THEN groups
            ELSE LET key == GroupKey(calls[i])
                     at  == {g \in 1..Len(groups) : groups[g].key = key}
                 IN IF at = {}
                    THEN G(i + 1, Append(groups, [key |-> key, calls |-> <<calls[i]>>]))
                    ELSE LET g == CHOOSE x \in at : TRUE
                         IN G(i + 1, [groups EXCEPT ![g].calls = Append(@, calls[i])])
    IN G(1, <<>>)

FieldValueCalls(savedCalls) ==
    LET reads   == SelectSeq(savedCalls, LAMBDA c : c.description = FieldValueRead)
        tracked == SelectSeq(reads,
                             LAMBDA c : c.custom.value \in {FillEmail, FillPassword})
        groups  == GroupBy(tracked)
    IN [g \in 1..Len(groups) |->
           [call    |-> groups[g].calls[1],
            members |-> groups[g].calls,
            times   |-> [m \in 1..Len(groups[g].calls) |->
                            groups[g].calls[m].custom.time]]]

Min(a, b) == IF a <= b THEN a ELSE b

Reverse(seq) == [i \in 1..Len(seq) |-> seq[Len(seq) + 1 - i]]

\* The lines pushed while frames i, i-1, ..., 1 are visited with prevFile.
RECURSIVE EmitFrames(_, _, _, _)
EmitFrames(stack, stackInfo, i, prevFile) ==
    IF i = 0 THEN <<>>
    ELSE IF ~Has(stack[i], "file")
    THEN <<ReplaceFile(stack[i], "")>> \o EmitFrames(stack, stackInfo, i - 1, prevFile)
    ELSE <<ReplaceFile(stack[i],
              IF Has(prevFile, "file") /\ prevFile.file = stack[i].file
              THEN RepeatMarker
              ELSE ThirdPartyInfoStr(stackInfo[i]) \o stack[i].file)>>
         \o EmitFrames(stack, stackInfo, i - 1, [file |-> stack[i].file])

\* for (... of reverse(zip(stack, stackInfo))) push; displayFrames.reverse()
DisplayFramesFromLast(stack, stackInfo) ==
    Reverse(EmitFrames(stack, stackInfo, Min(Len(stack), Len(stackInfo)), <<>>))

\* Mutant: the frames are visited first to last.
DisplayFramesFromFirst(stack, stackInfo) ==
    LET n == Min(Len(stack), Len(stackInfo))
    IN EmitFrames(Reverse(SubSeq(stack, 1, n)), Reverse(SubSeq(stackInfo, 1, n)),
                  n, <<>>)

DisplayFrames(stack, stackInfo) == DisplayFramesFromLast(stack, stackInfo)

RenderGroup(group, testStarted) ==
    LET call == group.call IN
       <<Join([t \in 1..Len(group.times) |-> TimeStr(group.times[t], testStarted)], " ")
            \o " access to "
            \o (IF call.custom.value = FillPassword THEN "password " ELSE "email ")
            \o "value of " \o call.custom.type \o " field">>
    \o (IF Has(call.custom, "selectorChain")
           THEN <<" \"" \o SelectorStr(call.custom.selectorChain) \o "\"">> ELSE <<>>)
    \o Ln(" by:")
    \o Flatten([f \in 1..Len(DisplayFrames(call.stack, call.stackInfo)) |->
                   Ln("\t" \o DisplayFrames(call.stack, call.stackInfo)[f])])
    \o Ln("")

ApiSection(out) ==
    LET data == out.crawlResult.data IN
    IF Has(data, "apis")
    THEN LET groups == FieldValueCalls(data.apis.savedCalls) IN
         IF Len(groups) > 0
         THEN    Ln("Field value reads:")
              \o Flatten([g \in 1..Len(groups) |-> RenderGroup(groups[g], out.crawlResult.testStarted)])
              \o Ln("")
         ELSE <<>>
    ELSE Ln("No API call data found\n")

\* ---- the rest of the report ---------------------------------------------

HeaderSection(out) ==
       Ln("Crawl of " \o out.crawlResult.initialUrl)
    \o (IF out.crawlResult.finalUrl # out.crawlResult.initialUrl
           THEN Ln("URL after redirects: " \o out.crawlResult.finalUrl) ELSE <<>>)
    \o Ln("")

FieldsSection(out) ==
    IF Has(out.crawlResult.data, "fields") THEN <<>>
    ELSE Ln("No fields collector data, it probably crashed\n")

CountOf(events, kind) ==
    Len(SelectSeq(events, LAMBDA ev : ev.kind = kind))

StatisticsSection(out) ==
    LET data == out.crawlResult.data IN
    IF Has(data, "fields")
    THEN    Ln("Automated crawl statistics:\n")
         \o Ln(ToString(Len(data.fields.fields)) \o " fields found")
         \o Ln(ToString(CountOf(data.fields.events, "FillEvent")) \o " fields filled")
         \o Ln(ToString(CountOf(data.fields.events, "SubmitEvent")) \o " fields submitted")
         \o Ln(ToString(IF Has(data.fields, "links") THEN Len(data.fields.links) ELSE 0)
                  \o " links found")
         \o Ln(ToString(CountOf(data.fields.events, "ClickLinkEvent")) \o " links clicked")
    ELSE <<>>

\* getSummary(output, fieldsCollectorOptions)
GetSummary ==
    /\ summary.status = "init"
    /\ summary' =
          IF LeakSectionThrows(output)
          THEN [status |-> "threw"]
          ELSE    [status  |-> "returned",
                   strings |->    HeaderSection(output) \o FieldsSection(output)
                               \o LeakSection(output) \o ApiSection(output)
                               \o StatisticsSection(output)]
               @@ (IF Has(output, "leakedValues")
                      THEN [importantLeaks |-> ImportantLeaks(AnnotatedLeaks(output))]
                      ELSE <<>>)
               @@ (IF Has(output.crawlResult.data, "apis")
                      THEN LET groups ==
                                 FieldValueCalls(output.crawlResult.data.apis.savedCalls)
                           IN [fieldValueCalls |-> groups,
                               displayFrames   |->
                                  [g \in 1..Len(groups) |->
                                      DisplayFrames(groups[g].call.stack,
                                                    groups[g].call.stackInfo)]]
                      ELSE <<>>)
    /\ UNCHANGED <<output, notSummaryVars>>

\* ---- inputs ------------------------------------------------------------

ThirdPartyInfos ==
    {<<>>,
     [thirdParty |-> FALSE, tracker |-> FALSE],
     [thirdParty |-> TRUE,  tracker |-> FALSE],
     [thirdParty |-> FALSE, tracker |-> TRUE]}

\* The request at position i (0-based): the first one has a call stack, the
\* others have a wall time.
SummaryRequest(i, info) ==
       [url |-> "https://r" \o ToString(i) \o ".example/"]
    @@ info
    @@ (IF i = 0 THEN [stack |-> <<"at send (a.js:1:1)">>]
                 ELSE [wallTime |-> 1000 * (i + 1)])

SummaryTarget(i, info) ==
    [url |-> "https://t" \o ToString(i) \o ".example/",
     time |-> 1000 * (i + 1) + 250] @@ info

FieldsData(targets) ==
    [visitedTargets |-> targets, passwordLeaks |-> <<>>, fields |-> <<>>,
     events |-> <<>>, errors |-> <<>>]

CrawlResult(data) ==
    [initialUrl |-> "https://site.example/", finalUrl |-> "https://site.example/",
     testStarted |-> 1000, data |-> data]

RequestCollections ==
    {<<>>} \cup
    {[requests |-> [i \in 1..Len(infos) |-> SummaryRequest(i - 1, infos[i])]] :
        infos \in SeqsUpTo(ThirdPartyInfos, MaxSummaryRequests)}

FieldsCollections ==
    {<<>>} \cup
    {[fields |-> FieldsData([i \in 1..Len(infos) |-> SummaryTarget(i - 1, infos[i])])] :
        infos \in SeqsUpTo(ThirdPartyInfos, MaxSummaryTargets)}

LeakEntries ==
         {[type |-> "password", part |-> "url", requestIndex |-> i] :
             i \in 0..(MaxSummaryRequests - 1)}
    \cup {[type |-> "email", part |-> "url", visitedTargetIndex |-> i] :
             i \in 0..(MaxSummaryTargets - 1)}

LeakLists ==
    {<<>>} \cup {[leakedValues |-> l] : l \in SeqsUpTo(LeakEntries, MaxLeaks)}

\* Reports over the leak data: every combination of absent and present
\* request data, fields data and leaked values; no API call data.
SummaryLeaksInit ==
    /\ output \in {[crawlResult |-> CrawlResult(rc @@ fc)] @@ lv :
                      rc \in RequestCollections, fc \in FieldsCollections,
                      lv \in LeakLists}
    /\ summary = [status |-> "init"]
    /\ FindIdle /\ UnwrapIdle /\ QueryIdle /\ StreamIdle

FrameIn(file)  == [before |-> "at f (", file |-> file, after |-> ":1:1)"]
FramelessLine  == [before |-> "at <anonymous>"]

SelectorChains == {<<>>, <<"form">>, <<"form", "input">>}
CallStacks     == {<<FrameIn("a.js")>>, <<FrameIn("a.js"), FrameIn("b.js")>>}

SavedCallShapes ==
    {[description |-> d, custom |-> [type |-> t, value |-> v] @@ sc,
      stack |-> st, stackInfo |-> [i \in 1..Len(st) |-> <<>>]] :
        d  \in {FieldValueRead, "Document.prototype.cookie"},
        t  \in {"text", "password"},
        v  \in {FillEmail, FillPassword, "other"},
        sc \in {<<>>} \cup {[selectorChain |-> c] : c \in SelectorChains},
        st \in CallStacks}

\* The call log: call i was made at second i.
WithTimes(shapes) ==
    [i \in 1..Len(shapes) |->
        [shapes[i] EXCEPT !.custom = @ @@ [time |-> 1000 * (i + 1)]]]

ApiOutput(savedCalls) ==
    [crawlResult |-> CrawlResult([apis |-> [savedCalls |-> savedCalls]])]

\* Reports over the API call log.
SummaryGroupsInit ==
    /\ output \in {ApiOutput(WithTimes(shapes)) :
                      shapes \in SeqsUpTo(SavedCallShapes, MaxCalls)}
    /\ summary = [status |-> "init"]
    /\ FindIdle /\ UnwrapIdle /\ QueryIdle /\ StreamIdle

AnnotatedFrames ==
    {[frame |-> FramelessLine, info |-> <<>>]} \cup
    {[frame |-> FrameIn(file), info |-> info] :
        file \in {"a.js", "b.js"},
        info \in {<<>>, [thirdParty |-> TRUE, tracker |-> FALSE]}}

FrameCall(frames) ==
    [description |-> FieldValueRead,
     custom      |-> [type |-> "password", value |-> FillPassword,
                      selectorChain |-> <<"input">>, time |-> 2000],
     stack       |-> [i \in 1..Len(frames) |-> frames[i].frame],
     stackInfo   |-> [i \in 1..Len(frames) |-> frames[i].info]]

\* Reports over one field value read with every stack of up to MaxFrames.
SummaryFramesInit ==
    /\ output \in {ApiOutput(<<FrameCall(frames)>>) :
                      frames \in SeqsUpTo(AnnotatedFrames, MaxFrames) \ {<<>>}}
    /\ summary = [status |-> "init"]
    /\ FindIdle /\ UnwrapIdle /\ QueryIdle /\ StreamIdle

SummaryNext == GetSummary

SpecLeaks  == SummaryLeaksInit  /\ [][SummaryNext]_vars
SpecGroups == SummaryGroupsInit /\ [][SummaryNext]_vars
SpecFrames == SummaryFramesInit /\ [][SummaryNext]_vars

-----------------------------------------------------------------------------
(* Claims about getSummary                                                 *)

Returned == summary.status = "returned"

IsTrue(obj, key) == Has(obj, key) /\ obj[key] = TRUE

\* C2: when the resolved source of at least one leak entry, at any position,
\* has a defined thirdParty, exactly the entries whose source has
\* thirdParty === true or tracker === true are rendered, in their order;
\* when none has, every entry is rendered.
C2_FilterWhenAnyEntryClassified ==
    (Returned /\ Has(summary, "importantLeaks")) =>
        LET annotated == AnnotatedLeaks(output) IN
        IF \E i \in 1..Len(annotated) : Has(SourceOf(annotated[i]), "thirdParty")
        THEN summary.importantLeaks =
                SelectSeq(annotated,
                          LAMBDA a : \/ IsTrue(SourceOf(a), "thirdParty")
                                     \/ IsTrue(SourceOf(a), "tracker"))
        ELSE summary.importantLeaks = annotated

\* Every leak entry names an element of a collection that is present.
LeaksResolve(out) ==
    Has(out, "leakedValues") =>
        \A i \in 1..Len(out.leakedValues) :
            LET leak == out.leakedValues[i]
                data == out.crawlResult.data
            IN /\ Has(leak, "requestIndex") \/ Has(leak, "visitedTargetIndex")
               /\ Has(leak, "requestIndex") =>
                     /\ Has(data, "requests")
                     /\ leak.requestIndex < Len(data.requests)
               /\ Has(leak, "visitedTargetIndex") =>
                     /\ Has(data, "fields")
                     /\ leak.visitedTargetIndex < Len(data.fields.visitedTargets)

Wrote(str) == \E i \in 1..Len(summary.strings) : summary.strings[i] = str

WarnsOfMissingData ==
    /\ ~Has(output.crawlResult.data, "requests") =>
          Wrote("No request collector data found")
    /\ ~Has(output.crawlResult.data, "fields") =>
          Wrote("No fields collector data, it probably crashed\n")
    /\ ~Has(output, "leakedValues") => Wrote("No leaked value data found\n")

\* C6 as stated: whatever is absent, and whatever the leak list, getSummary
\* returns a report, with a warning line for each missing piece of data.
C6_ReportNeverFails ==
    /\ summary.status # "threw"
    /\ Returned => WarnsOfMissingData

\* C6 as amended: getSummary returns the report, with a warning line for each
\* missing piece of data, whenever every leak entry names an element of a
\* collection that is present.
C6_ReportRendersWhenLeaksResolve ==
    (summary.status # "init" /\ LeaksResolve(output)) =>
        (Returned /\ WarnsOfMissingData)

\* A report over leaks found in visited targets, without request data.
C6_Witness ==
    /\ Returned
    /\ ~Has(output.crawlResult.data, "requests")
    /\ Has(output, "leakedValues")
    /\ Len(output.leakedValues) > 0
    /\ Wrote("No request collector data found")

SameField(a, b, key) ==
    /\ Has(a, key) <=> Has(b, key)
    /\ Has(a, key) => a[key] = b[key]

\* C7: two calls are in one group only if they have the same selectorChain
\* (an absent one being different from every present one), type, value and
\* stack.
C7_GroupMembersShareKeyFields ==
    (Returned /\ Has(summary, "fieldValueCalls")) =>
        \A g \in 1..Len(summary.fieldValueCalls) :
            \A m, n \in 1..Len(summary.fieldValueCalls[g].members) :
                LET a == summary.fieldValueCalls[g].members[m]
                    b == summary.fieldValueCalls[g].members[n]
                IN /\ SameField(a.custom, b.custom, "selectorChain")
                   /\ a.custom.type = b.custom.type
                   /\ a.custom.value = b.custom.value
                   /\ a.stack = b.stack

FilesOf(stack) ==
    [i \in 1..Len(stack) |-> IF Has(stack[i], "file") THEN stack[i].file ELSE ""]

AllFramesHaveFile(stack) == \A i \in 1..Len(stack) : Has(stack[i], "file")

Marked(frame)         == ReplaceFile(frame, RepeatMarker)
Labelled(frame, info) == ReplaceFile(frame, ThirdPartyInfoStr(info) \o frame.file)

\* Frame i is the first, or the last, of a maximal run of frames of one file.
StartsRun(files, i) == i = 1 \/ files[i - 1] # files[i]
EndsRun(files, i)   == i = Len(files) \/ files[i + 1] # files[i]

\* The frame with a file that follows frame i, if there is one.
NextWithFile(stack, i) ==
    LET later == {j \in (i + 1)..Len(stack) : Has(stack[j], "file")}
    IN IF later = {} THEN 0
       ELSE CHOOSE j \in later : \A k \in later : j <= k

\* C8 as stated: one line per frame, in the stack's order; in every maximal
\* run of frames of one file one line has the file, labelled from its own
\* frame, and the others have the repeat marker; three frames of a.js and
\* one of b.js give a.js, two repeat markers, b.js.
C8_FirstOfRunLabelled ==
    (Returned /\ Has(summary, "displayFrames")) =>
        \A g \in 1..Len(summary.displayFrames) :
            LET stack == summary.fieldValueCalls[g].call.stack
                info  == summary.fieldValueCalls[g].call.stackInfo
                lines == summary.displayFrames[g]
            IN AllFramesHaveFile(stack) =>
                  /\ Len(lines) = Len(stack)
                  /\ \A i \in 1..Len(stack) :
                        lines[i] \in {Marked(stack[i]), Labelled(stack[i], info[i])}
                  /\ \A i \in 1..Len(stack) :
                        StartsRun(FilesOf(stack), i) =>
                           \E j \in i..Len(stack) :
                              /\ \A k \in i..j : FilesOf(stack)[k] = FilesOf(stack)[i]
                              /\ EndsRun(FilesOf(stack), j)
                              /\ Cardinality({k \in i..j :
                                    lines[k] = Labelled(stack[k], info[k])}) = 1
                  /\ FilesOf(stack) = <<"a.js", "a.js", "a.js", "b.js">> =>
                        lines = <<Labelled(stack[1], info[1]), Marked(stack[2]),
                                  Marked(stack[3]), Labelled(stack[4], info[4])>>

\* C8 as amended: one line per frame, in the stack's order; a frame without
\* a file is written as it is; a frame with a file has the repeat marker when
\* the next frame with a file has the same file, and otherwise its file,
\* labelled from its own frame: in every maximal run of frames of one file
\* only the last line has the file.  Three frames of a.js and one of b.js give
\* two repeat markers, a.js, b.js; b.js and three frames of a.js give b.js,
\* two repeat markers, a.js.
C8_LastOfRunLabelled ==
    (Returned /\ Has(summary, "displayFrames")) =>
        \A g \in 1..Len(summary.displayFrames) :
            LET stack == summary.fieldValueCalls[g].call.stack
                info  == summary.fieldValueCalls[g].call.stackInfo
                lines == summary.displayFrames[g]
            IN /\ Len(lines) = Len(stack)
               /\ \A i \in 1..Len(stack) :
                     lines[i] =
                        IF ~Has(stack[i], "file") THEN FrameText(stack[i])
                        ELSE IF /\ NextWithFile(stack, i) # 0
                                /\ stack[NextWithFile(stack, i)].file = stack[i].file
                        THEN Marked(stack[i])
                        ELSE Labelled(stack[i], info[i])
               /\ FilesOf(stack) = <<"a.js", "a.js", "a.js", "b.js">> =>
                     lines = <<Marked(stack[1]), Marked(stack[2]),
                               Labelled(stack[3], info[3]), Labelled(stack[4], info[4])>>
               /\ FilesOf(stack) = <<"b.js", "a.js", "a.js", "a.js">> =>
                     lines = <<Labelled(stack[1], info[1]), Marked(stack[2]),
                               Marked(stack[3]), Labelled(stack[4], info[4])>>

\* The stack of three a.js frames and one b.js frame has been rendered, the
\* a.js frames being a third party's.
C8_Witness ==
    /\ Returned
    /\ Has(summary, "displayFrames")
    /\ \E g \in 1..Len(summary.displayFrames) :
          /\ FilesOf(summary.fieldValueCalls[g].call.stack)
                = <<"a.js", "a.js", "a.js", "b.js">>
          /\ IsTrue(summary.fieldValueCalls[g].call.stackInfo[3], "thirdParty")
          /\ Len(summary.displayFrames[g]) = 4

-----------------------------------------------------------------------------
(* unwrapHandle, unwrapHandleEx (puppeteerUtils.ts)                        *)
(* A handle is modelled by the remote object it refers to: its type, its  *)
(* subtype and className when it has them, its value when it is a         *)
(* primitive, and its own properties, as getProperties() lists them.      *)

MaxProps == 2

\* shouldUnwrap of unwrapHandle: () => true
UnwrapAll(className) == TRUE

\* Mutant: only plain objects are transparent.
OnlyPlainObjects(className) == className = "Object"

\* the default shouldUnwrap of unwrapHandleEx
DefaultShouldUnwrap(className) == className \in {"Object", "Proxy"}

\* A caller's shouldUnwrap, given as the set of class names it accepts.
ShouldUnwrap(policy, className) ==
    CASE policy.by = "unwrapHandle" -> UnwrapAll(className)
      [] policy.by = "default"      -> DefaultShouldUnwrap(className)
      [] policy.by = "caller"       -> className \in policy.classes

Opaque(remoteObject) == [kind |-> "handle", of |-> remoteObject]

RECURSIVE UnwrapHandleEx(_, _)
UnwrapHandleEx(remoteObject, policy) ==
    IF remoteObject.type \in {"function", "symbol"}
    THEN Opaque(remoteObject)
    ELSE IF remoteObject.type = "object"
    THEN IF ~Has(remoteObject, "subtype") \/ remoteObject.subtype = "proxy"
         THEN IF ShouldUnwrap(policy, remoteObject.className)
              THEN [kind    |-> "object",
                    entries |-> [i \in 1..Len(remoteObject.props) |->
                                    [k |-> remoteObject.props[i].k,
                                     v |-> UnwrapHandleEx(remoteObject.props[i].v,
                                                          policy)]]]
              ELSE Opaque(remoteObject)
         ELSE IF remoteObject.subtype = "null"
         THEN [kind |-> "null"]
         ELSE IF remoteObject.subtype = "array"
         THEN [kind  |-> "array",
               items |-> [i \in 1..Len(remoteObject.props) |->
                             UnwrapHandleEx(remoteObject.props[i].v, policy)]]
         ELSE Opaque(remoteObject)
    ELSE [kind |-> "value", value |-> remoteObject.value]

\* values without properties
RemoteLeaves ==
    {[type |-> "number", value |-> 1],
     [type |-> "function", className |-> "Function"],
     [type |-> "symbol"],
     [type |-> "object", subtype |-> "null"],
     [type |-> "object", subtype |-> "date", className |-> "Date"]}

\* objects with properties: plain objects, instances of a class, proxies
\* (reported with either class name), arrays
WithProps(props) ==
    {[type |-> "object", className |-> "Object", props |-> props],
     [type |-> "object", className |-> "Foo", props |-> props],
     [type |-> "object", subtype |-> "proxy", className |-> "Proxy", props |-> props],
     [type |-> "object", subtype |-> "proxy", className |-> "Foo", props |-> props],
     [type |-> "object", subtype |-> "array", className |-> "Array", props |-> props]}

PropNames == <<"0", "1", "2", "3">>

PropsOf(values) == [i \in 1..Len(values) |-> [k |-> PropNames[i], v |-> values[i]]]

FlatObjects(max) ==
    UNION {WithProps(PropsOf(values)) : values \in SeqsUpTo(RemoteLeaves, max)}

\* objects whose first property is itself an object with properties
NestedObjects(max) ==
    UNION {WithProps(PropsOf(<<first>> \o rest)) :
              first \in FlatObjects(max - 1), rest \in SeqsUpTo(RemoteLeaves, max - 1)}

UnwrapInit ==
    /\ handle \in RemoteLeaves \cup FlatObjects(MaxProps) \cup NestedObjects(MaxProps)
    /\ unwrapCall = [status |-> "init"]
    /\ FindIdle /\ SummaryIdle /\ QueryIdle /\ StreamIdle

\* unwrapHandle(handle)
UnwrapHandle ==
    /\ unwrapCall.status = "init"
    /\ unwrapCall' = [status |-> "done", variant |-> "unwrapHandle",
                      result |-> UnwrapHandleEx(handle, [by |-> "unwrapHandle"])]
    /\ UNCHANGED <<handle, notUnwrapVars>>

\* unwrapHandleEx(handle)
UnwrapHandleExDefault ==
    /\ unwrapCall.status = "init"
    /\ unwrapCall' = [status |-> "done", variant |-> "unwrapHandleEx",
                      result |-> UnwrapHandleEx(handle, [by |-> "default"])]
    /\ UNCHANGED <<handle, notUnwrapVars>>

\* unwrapHandleEx(handle, shouldUnwrap)
UnwrapHandleExWith(classes) ==
    /\ unwrapCall.status = "init"
    /\ unwrapCall' = [status |-> "done", variant |-> "unwrapHandleEx",
                      policy |-> classes,
                      result |-> UnwrapHandleEx(handle, [by |-> "caller", classes |-> classes])]
    /\ UNCHANGED <<handle, notUnwrapVars>>

UnwrapNext ==
    \/ UnwrapHandle
    \/ UnwrapHandleExDefault
    \/ \E classes \in {{}, {"Foo"}} : UnwrapHandleExWith(classes)

SpecUnwrap == UnwrapInit /\ [][UnwrapNext]_vars

-----------------------------------------------------------------------------
(* Claims about unwrapHandle and unwrapHandleEx                            *)

DefaultPolicyCall == unwrapCall.status = "done" /\ ~Has(unwrapCall, "policy")

Inlinable(remoteObject) ==
    /\ remoteObject.type = "object"
    /\ ~Has(remoteObject, "subtype") \/ remoteObject.subtype = "proxy"

KeptOpaque(remoteObject) ==
    \/ remoteObject.type \in {"function", "symbol"}
    \/ /\ remoteObject.type = "object"
       /\ ~Inlinable(remoteObject)
       /\ remoteObject.subtype \notin {"null", "array"}

\* The remote objects an unwrap visits, each with what it was unwrapped to:
\* the handle's own, and the property values of those that were inlined.
RECURSIVE Visited(_, _)
Visited(remoteObject, result) ==
    {<<remoteObject, result>>} \cup
    (IF result.kind = "object"
        THEN UNION {Visited(remoteObject.props[i].v, result.entries[i].v) :
                       i \in 1..Len(result.entries)}
     ELSE IF result.kind = "array"
        THEN UNION {Visited(remoteObject.props[i].v, result.items[i]) :
                       i \in 1..Len(result.items)}
     ELSE {})

InlinedAsMapping(pair) ==
    /\ pair[2].kind = "object"
    /\ [i \in 1..Len(pair[2].entries) |-> pair[2].entries[i].k]
          = [i \in 1..Len(pair[1].props) |-> pair[1].props[i].k]

OpaqueOrNotClaimed(pair) == KeptOpaque(pair[1]) => pair[2] = Opaque(pair[1])

\* C9 as stated: without an explicit policy, in unwrapHandle and in
\* unwrapHandleEx alike, an object whose subtype is absent or 'proxy' is
\* inlined exactly when its class is Object or Proxy; other objects that are
\* neither null nor arrays, functions and symbols stay handles.
C9_BothVariantsInlineTwoClasses ==
    DefaultPolicyCall =>
        \A pair \in Visited(handle, unwrapCall.result) :
            /\ Inlinable(pair[1]) =>
                  /\ InlinedAsMapping(pair) <=> pair[1].className \in {"Object", "Proxy"}
                  /\ pair[2] = Opaque(pair[1]) <=> pair[1].className \notin {"Object", "Proxy"}
            /\ OpaqueOrNotClaimed(pair)

\* C9 as amended: without an explicit policy, unwrapHandleEx inlines an object
\* whose subtype is absent or 'proxy' exactly when its class is Object or
\* Proxy, and returns the handle otherwise; unwrapHandle inlines every such
\* object, whatever its class; in both, other objects that are neither null
\* nor arrays, functions and symbols stay handles.
C9_OnlyExInlinesTwoClasses ==
    DefaultPolicyCall =>
        \A pair \in Visited(handle, unwrapCall.result) :
            /\ Inlinable(pair[1]) =>
                  LET transparent ==
                         \/ unwrapCall.variant = "unwrapHandle"
                         \/ pair[1].className \in {"Object", "Proxy"}
                  IN /\ InlinedAsMapping(pair) <=> transparent
                     /\ pair[2] = Opaque(pair[1]) <=> ~transparent
            /\ OpaqueOrNotClaimed(pair)

\* unwrapHandleEx, without a policy, inlined a proxy that holds an instance
\* of a class, which it kept as a handle, and a date.
C9_Witness ==
    /\ DefaultPolicyCall
    /\ unwrapCall.variant = "unwrapHandleEx"
    /\ Has(handle, "subtype") /\ handle.subtype = "proxy"
    /\ unwrapCall.result.kind = "object"
    /\ Len(handle.props) = 2
    /\ Inlinable(handle.props[1].v)
    /\ handle.props[1].v.className = "Foo"
    /\ unwrapCall.result.entries[1].v.kind = "handle"
    /\ Has(handle.props[2].v, "subtype")
    /\ handle.props[2].v.subtype = "date"
    /\ unwrapCall.result.entries[2].v.kind = "handle"

-----------------------------------------------------------------------------
(* robustPierceQueryHandler (puppeteerUtils.ts)                            *)
(* The page is a forest of trees: node 1 is an element, every other node  *)
(* is an element or a shadow root and has a parent with a smaller number. *)
(* A shadow root's parent is its host; the children of a node, in document*)
(* order, are its element children by number.                              *)

MaxNodes == 5

NodesOf(d) == 1..Len(d.kind)

IsElement(d, n) == d.kind[n] = "element"

\* Element.prototype.shadowRoot, as captured from the prototype: the shadow
\* root the element hosts, or null (0)
ShadowRootOf(d, n) ==
    LET hosted == {c \in NodesOf(d) : d.parent[c] = n /\ d.kind[c] = "shadow"}
    IN IF hosted = {} THEN 0 ELSE CHOOSE c \in hosted : TRUE

\* the child elements of a node, in document order
ChildElements(d, n) ==
    LET RECURSIVE From(_)
        From(c) == IF c > Len(d.kind) THEN <<>>
                   ELSE (IF d.parent[c] = n /\ IsElement(d, c) THEN <<c>> ELSE <<>>)
                        \o From(c + 1)
    IN From(n + 1)

\* document.createTreeWalker(node, SHOW_ELEMENT), nextNode() until null: the
\* elements below node in its own tree, in document order, node left out
RECURSIVE TreeWalk(_, _)
TreeWalk(d, node) ==
    Flatten([i \in 1..Len(ChildElements(d, node)) |->
                <<ChildElements(d, node)[i]>> \o TreeWalk(d, ChildElements(d, node)[i])])

\* Mutant: the shadow roots of the elements walked are not entered.
RECURSIVE ExamineChildrenOwnShadowOnly(_, _)
ExamineChildrenOwnShadowOnly(d, node) ==
       (IF IsElement(d, node) /\ ShadowRootOf(d, node) # 0
           THEN ExamineChildrenOwnShadowOnly(d, ShadowRootOf(d, node)) ELSE <<>>)
    \o SelectSeq(TreeWalk(d, node), LAMBDA child : d.matches[child])

\* function* examineChildren(node)
RECURSIVE ExamineChildren(_, _)
ExamineChildren(d, node) ==
       (IF IsElement(d, node) /\ ShadowRootOf(d, node) # 0
           THEN ExamineChildren(d, ShadowRootOf(d, node)) ELSE <<>>)
    \o Flatten([i \in 1..Len(TreeWalk(d, node)) |->
                   LET child == TreeWalk(d, node)[i] IN
                      (IF d.matches[child] THEN <<child>> ELSE <<>>)
                   \o (IF ShadowRootOf(d, child) # 0
                          THEN ExamineChildren(d, ShadowRootOf(d, child)) ELSE <<>>)])

\* The pages of n nodes: a page of n - 1 nodes and one more node, an element
\* below any node or the shadow root of an element that hosts none.
RECURSIVE DomsOfSize(_)
DomsOfSize(n) ==
    IF n = 1
    THEN {[kind |-> <<"element">>, parent |-> <<0>>, matches |-> <<m>>] :
             m \in BOOLEAN}
    ELSE LET smaller == DomsOfSize(n - 1) IN
            {[kind    |-> Append(d.kind, "element"),
              parent  |-> Append(d.parent, p),
              matches |-> Append(d.matches, m)] :
                 d \in smaller, p \in 1..(n - 1), m \in BOOLEAN}
       \cup UNION {{[kind    |-> Append(d.kind, "shadow"),
                     parent  |-> Append(d.parent, p),
                     matches |-> Append(d.matches, FALSE)] :
                        p \in {e \in 1..(n - 1) :
                                  IsElement(d, e) /\ ShadowRootOf(d, e) = 0}} :
                     d \in smaller}

DomsUpTo(max) == UNION {DomsOfSize(n) : n \in 1..max}

QueryInit ==
    /\ dom \in DomsUpTo(MaxNodes)
    /\ query = [status |-> "init"]
    /\ FindIdle /\ SummaryIdle /\ UnwrapIdle /\ StreamIdle

\* queryAll(node, selector)
QueryAll(node) ==
    /\ query.status = "init"
    /\ query' = [status |-> "done", handler |-> "queryAll", node |-> node,
                 result |-> ExamineChildren(dom, node)]
    /\ UNCHANGED <<dom, notQueryVars>>

\* queryOne(node, selector): const [first] = examineChildren(node);
\* first ?? null (0)
QueryOne(node) ==
    /\ query.status = "init"
    /\ query' = [status |-> "done", handler |-> "queryOne", node |-> node,
                 result |-> IF ExamineChildren(dom, node) = <<>> THEN 0
                            ELSE Head(ExamineChildren(dom, node))]
    /\ UNCHANGED <<dom, notQueryVars>>

QueryNext ==
    \/ \E node \in NodesOf(dom) : QueryAll(node)
    \/ \E node \in NodesOf(dom) : QueryOne(node)

SpecQuery == QueryInit /\ [][QueryNext]_vars

-----------------------------------------------------------------------------
(* Claims about the query handler                                          *)

\* The nodes strictly below a node, through child and shadow-root links.
Below(d, node) ==
    LET RECURSIVE Up(_)
        Up(n) == IF d.parent[n] = 0 THEN {} ELSE {d.parent[n]} \cup Up(d.parent[n])
    IN {n \in NodesOf(d) : node \in Up(n)}

\* The matching elements of the tree of an element, shadow trees included:
\* the element, then what is in its shadow tree, then what is below it.
RECURSIVE InReadingOrder(_, _)
InsideOf(d, node) ==
    Flatten([i \in 1..Len(ChildElements(d, node)) |->
                InReadingOrder(d, ChildElements(d, node)[i])])

InReadingOrder(d, element) ==
       (IF d.matches[element] THEN <<element>> ELSE <<>>)
    \o (IF ShadowRootOf(d, element) # 0
           THEN InsideOf(d, ShadowRootOf(d, element)) ELSE <<>>)
    \o InsideOf(d, element)

ExpectedMatches(d, node) ==
       (IF IsElement(d, node) /\ ShadowRootOf(d, node) # 0
           THEN InsideOf(d, ShadowRootOf(d, node)) ELSE <<>>)
    \o InsideOf(d, node)

\* C10: queryAll returns the matching elements strictly below the root, in
\* its tree and in the shadow trees hosted by it and by what is below it,
\* each once and never the root, in the order in which what is in an
\* element's shadow tree comes right after the element and before what is
\* below it; queryOne returns the first of them, or null.
C10_PiercingQueryResult ==
    query.status = "done" =>
        LET expected == ExpectedMatches(dom, query.node) IN
        IF query.handler = "queryAll"
        THEN /\ query.result = expected
             /\ Range(query.result)
                   = {n \in Below(dom, query.node) : dom.matches[n]}
             /\ Cardinality(Range(query.result)) = Len(query.result)
             /\ query.node \notin Range(query.result)
        ELSE query.result = IF expected = <<>> THEN 0 ELSE Head(expected)

\* queryAll at an element returned an element of a shadow tree whose host is
\* itself in a shadow tree, after another match.
C10_Witness ==
    /\ query.status = "done"
    /\ query.handler = "queryAll"
    /\ IsElement(dom, query.node)
    /\ \E i \in 2..Len(query.result) :
          LET shadow == dom.parent[query.result[i]] IN
          /\ dom.kind[shadow] = "shadow"
          /\ dom.parent[shadow] # query.node
          /\ dom.kind[dom.parent[dom.parent[shadow]]] = "shadow"

-----------------------------------------------------------------------------
(* createCDPReadStream (puppeteerUtils.ts)                                 *)
(* readStream() is an async generator.  Its requests (next, return) queue  *)
(* while its body runs; return() on a generator that has not started       *)
(* completes it without running any of its body, the finally block         *)
(* included.  createProducerStream (utils) is the reader of the generator: *)
(* it asks for the next chunk when the consumer reads, and calls return()  *)
(* when the stream is destroyed, by the consumer or by the timeout signal. *)

MaxChunks == 3

Executing(g) == g.state \in {"awaitingRead", "awaitingClose"}

Send(s, command) == [s EXCEPT !.cdp = Append(@, command)]

ReadsSent(commands) == Len(SelectSeq(commands, LAMBDA c : c = "IO.read"))

\* The producer stream is told how its generator.next() ended; a stream that
\* is no longer open ignores it.
Deliver(s, outcome) ==
    IF s.stream.state # "open" THEN s
    ELSE CASE outcome = "chunk" ->
                [s EXCEPT !.stream.reading = FALSE, !.stream.chunks = @ + 1]
           [] outcome = "done"  ->
                [s EXCEPT !.stream.reading = FALSE, !.stream.state = "ended"]
           [] outcome = "error" ->
                [s EXCEPT !.stream.reading = FALSE, !.stream.state = "errored"]

\* The head request is settled and leaves the queue.
Settle(s, outcome) ==
    LET popped == [s EXCEPT !.gen.queue = Tail(@)]
    IN IF Head(s.gen.queue) = "next" THEN Deliver(popped, outcome) ELSE popped

\* finally { await cdp.send('IO.close', {handle}) }
EnterFinally(s) == Send([s EXCEPT !.gen.state = "awaitingClose"], "IO.close")

\* await cdp.send('IO.read', {handle})
EnterRead(s) == Send([s EXCEPT !.gen.state = "awaitingRead"], "IO.read")

\* The generator serves the requests that wait, until its body has to wait
\* for the session or no request is left.
RECURSIVE Drain(_)
Drain(s) ==
    IF s.gen.queue = <<>> \/ Executing(s.gen) THEN s
    ELSE LET request == Head(s.gen.queue) IN
         CASE s.gen.state = "suspendedStart" ->
                IF request = "next" THEN EnterRead(s)
                ELSE Drain(Settle([s EXCEPT !.gen.state = "completed"], "done"))
           [] s.gen.state = "suspendedYield" ->
                IF request = "next" /\ ~s.gen.eof THEN EnterRead(s)
                ELSE EnterFinally(s)
           [] s.gen.state = "completed" -> Drain(Settle(s, "done"))

Request(s, request) == Drain([s EXCEPT !.gen.queue = Append(@, request)])

StreamState == [gen |-> gen, cdp |-> cdp, stream |-> stream]

Becomes(s) ==
    /\ gen' = s.gen
    /\ cdp' = s.cdp
    /\ stream' = s.stream
    /\ UNCHANGED notStreamVars

\* createCDPReadStream(cdp, handle, timeoutMs?)
StreamInit ==
    /\ gen = [state |-> "suspendedStart", queue |-> <<>>, eof |-> FALSE,
              failed |-> FALSE]
    /\ cdp = <<>>
    /\ stream \in {[state |-> "open", reading |-> FALSE, chunks |-> 0, timeout |-> t] :
                      t \in {"none", "armed"}}
    /\ FindIdle /\ SummaryIdle /\ UnwrapIdle /\ QueryIdle

\* The consumer reads: the stream asks the generator for the next chunk.
StreamRead ==
    /\ stream.state = "open"
    /\ ~stream.reading
    /\ Becomes(Request([StreamState EXCEPT !.stream.reading = TRUE], "next"))

\* The consumer abandons the stream.
StreamDestroy ==
    /\ stream.state = "open"
    /\ Becomes(Request([StreamState EXCEPT !.stream.state = "destroyed"], "return"))

\* timeoutSignal(timeoutMs) aborts: the stream fails and is destroyed.
TimeoutFires ==
    /\ stream.timeout = "armed"
    /\ stream.state = "open"
    /\ Becomes(Request([StreamState EXCEPT !.stream.state = "errored",
                                           !.stream.timeout = "fired"], "return"))

\* IO.read answers: the chunk is yielded.
ReadReply(eof) ==
    /\ gen.state = "awaitingRead"
    /\ ~eof => ReadsSent(cdp) < MaxChunks
    /\ Becomes(Drain(Settle([StreamState EXCEPT !.gen.state = "suspendedYield",
                                                !.gen.eof = eof], "chunk")))

\* IO.read fails: the error leaves the try block through finally.
ReadFails ==
    /\ gen.state = "awaitingRead"
    /\ Becomes(EnterFinally([StreamState EXCEPT !.gen.failed = TRUE]))

\* IO.close answers or fails: the generator is finished.
CloseReply(ok) ==
    /\ gen.state = "awaitingClose"
    /\ Becomes(Drain(Settle([StreamState EXCEPT !.gen.state = "completed"],
                            IF ok /\ ~gen.failed THEN "done" ELSE "error")))

StreamNext ==
    \/ StreamRead
    \/ StreamDestroy
    \/ TimeoutFires
    \/ \E eof \in BOOLEAN : ReadReply(eof)
    \/ ReadFails
    \/ \E ok \in BOOLEAN : CloseReply(ok)

SpecStream == StreamInit /\ [][StreamNext]_vars

-----------------------------------------------------------------------------
(* Claims about the CDP read stream                                        *)

\* C5: on every way out of the read (all chunks read, IO.read failing, the
\* timeout, the consumer abandoning the stream, be it before the first chunk
\* was asked for), IO.close is sent: once the generator is finished, the
\* session has been sent an IO.close.
C5_CloseSentOnEveryExit ==
    gen.state = "completed" => \E i \in 1..Len(cdp) : cdp[i] = "IO.close"

====
